---- MODULE Spec2Model ----
(***************************************************************************)
(* Meridian backend: the daily plan router (app/routers/plans.py) and the  *)
(* task router (app/routers/tasks.py) over the tasks, daily_plans and      *)
(* task_completions tables.                                                *)
(*                                                                         *)
(* A table is the set (or map) of its committed rows.  An optional value   *)
(* of the source (Optional[...], a nullable column) is None or Some(x).    *)
(***************************************************************************)
EXTENDS Integers, Sequences, FiniteSets, TLC

VARIABLES tasks, plans, completions, nops, created_at, inflight, walk, txns, suggestion

vars == <<tasks, plans, completions, nops, created_at, inflight, walk, txns, suggestion>>

----------------------------------------------------------------------------
(* Bounds of the model *)

MaxTasks == 2
MaxLen == 2
MaxOps == 3
MaxRows == 3
MaxClock == 1
MaxLimit == 2

----------------------------------------------------------------------------
(* Optional values *)

None == <<>>
Some(x) == <<x>>
Get(o) == o[1]

Range(s) == {s[i] : i \in DOMAIN s}
SeqsUpTo(S, n) == UNION {[1..k -> S] : k \in 0..n}

----------------------------------------------------------------------------
(* Input domains *)

Users == {"u1", "u2"}
TaskIds == 1..MaxTasks
Orders == SeqsUpTo(TaskIds, MaxLen)
NotesValues == {None, Some("n1")}
MoodValues == {None, Some(4)}
PlanDateStrings == {"2026-11-01", "2026-11-09", "tomorrow"}
Outcomes == UNION {[K -> BOOLEAN] : K \in SUBSET TaskIds}

(* TaskStatus *)
PENDING == "pending"
IN_PROGRESS == "in_progress"
COMPLETED == "completed"
CANCELLED == "cancelled"
TaskStatus == {PENDING, IN_PROGRESS, COMPLETED, CANCELLED}

(* datetime.utcnow().date(), as a day number; the plan dates are day      *)
(* numbers relative to it                                                  *)
Today == 0
Now == 1

(* datetime.strptime(plan_date, "%Y-%m-%d").date(): None on ValueError *)
ParsePlanDate(plan_date) ==
    CASE plan_date = "2026-11-01" -> Some(Today)
      [] plan_date = "2026-11-09" -> Some(Today + 8)
      [] OTHER -> None

----------------------------------------------------------------------------
(* Request schemas *)

(* DailyPlanCreate: task_order is list[str] with default [], never None *)
DailyPlanCreate(task_order, notes, mood) ==
    [task_order |-> IF task_order = None THEN Some(<<>>) ELSE task_order,
     notes |-> notes,
     mood |-> mood]

(* ReorderTasksRequest: task_order is required, min_length=1 *)
ReorderTasksRequestValid(task_order) == Len(task_order) >= 1

----------------------------------------------------------------------------
(* Queries *)

(* the plan lookup without the filter on the owner *)
SelectPlansAnyUser(P, current_user_id, plan_date_obj) ==
    {p \in P : p.plan_date = plan_date_obj}

(* select(DailyPlan).where(user_id == current_user_id,                     *)
(*                         date(plan_date) == plan_date_obj)               *)
SelectPlans(P, current_user_id, plan_date_obj) ==
    {p \in P : p.user_id = current_user_id /\ p.plan_date = plan_date_obj}

(* the lookup of the task router without the ownership test *)
TaskFoundAnyOwner(T, task_id, current_user_id) ==
    task_id \in DOMAIN T

(* db.get(Task, task_id) followed by the ownership test of the task router *)
TaskFound(T, task_id, current_user_id) ==
    task_id \in DOMAIN T /\ T[task_id].user_id = current_user_id

(* the task lookup of complete_plan without the filter on the owner *)
SelectTaskAnyOwner(T, task_id, current_user_id) ==
    IF task_id \in DOMAIN T THEN Some(task_id) ELSE None

(* select(Task).where(Task.id == task_id, Task.user_id == current_user_id) *)
SelectOwnedTask(T, task_id, current_user_id) ==
    IF task_id \in DOMAIN T /\ T[task_id].user_id = current_user_id
    THEN Some(task_id) ELSE None

(* the position without the "+ 1": the 0-based list index *)
PlannedPositionZeroBased(task_order, task_id) ==
    IF task_id \in Range(task_order)
    THEN (CHOOSE i \in DOMAIN task_order :
            /\ task_order[i] = task_id
            /\ \A j \in DOMAIN task_order : task_order[j] = task_id => i <= j) - 1
    ELSE 0

(* plan.task_order.index(task_id) + 1 if task_id in plan.task_order else 0 *)
PlannedPosition(task_order, task_id) ==
    IF task_id \in Range(task_order)
    THEN CHOOSE i \in DOMAIN task_order :
            /\ task_order[i] = task_id
            /\ \A j \in DOMAIN task_order : task_order[j] = task_id => i <= j
    ELSE 0

----------------------------------------------------------------------------
(* plans.py: validation of request.task_order in create_or_update_plan *)

(* the validation with the cancelled check ahead of the ownership check *)
ValidateTaskOrderCancelledFirst(T, current_user_id, task_order) ==
    LET found == {t \in DOMAIN T : t \in Range(task_order)
                                   /\ T[t].user_id = current_user_id}
        missing_task_ids == Range(task_order) \ found
        cancelled_tasks == {t \in found : T[t].status = CANCELLED}
    IN  IF Len(task_order) = 0 THEN "PLAN_EMPTY_TASK_ORDER"
        ELSE IF Len(task_order) # Cardinality(Range(task_order))
             THEN "PLAN_DUPLICATE_TASK"
        ELSE IF cancelled_tasks # {} THEN "PLAN_CANCELLED_TASK"
        ELSE IF Cardinality(found) # Len(task_order) /\ missing_task_ids # {}
             THEN "PLAN_INVALID_TASK"
        ELSE "ok"

(* the validation that accepts pending tasks only *)
ValidateTaskOrderPendingOnly(T, current_user_id, task_order) ==
    LET found == {t \in DOMAIN T : t \in Range(task_order)
                                   /\ T[t].user_id = current_user_id}
        missing_task_ids == Range(task_order) \ found
        cancelled_tasks == {t \in found : T[t].status # PENDING}
    IN  IF Len(task_order) = 0 THEN "PLAN_EMPTY_TASK_ORDER"
        ELSE IF Len(task_order) # Cardinality(Range(task_order))
             THEN "PLAN_DUPLICATE_TASK"
        ELSE IF Cardinality(found) # Len(task_order) /\ missing_task_ids # {}
             THEN "PLAN_INVALID_TASK"
        ELSE IF cancelled_tasks # {} THEN "PLAN_CANCELLED_TASK"
        ELSE "ok"

ValidateTaskOrder(T, current_user_id, task_order) ==
    LET found == {t \in DOMAIN T : t \in Range(task_order)
                                   /\ T[t].user_id = current_user_id}
        missing_task_ids == Range(task_order) \ found
        cancelled_tasks == {t \in found : T[t].status = CANCELLED}
    IN  IF Len(task_order) = 0 THEN "PLAN_EMPTY_TASK_ORDER"
        ELSE IF Len(task_order) # Cardinality(Range(task_order))
             THEN "PLAN_DUPLICATE_TASK"
        ELSE IF Cardinality(found) # Len(task_order) /\ missing_task_ids # {}
             THEN "PLAN_INVALID_TASK"
        ELSE IF cancelled_tasks # {} THEN "PLAN_CANCELLED_TASK"
        ELSE "ok"

(* create_or_update_plan with notes and mood written to an existing plan  *)
(* before the task_order is validated                                      *)
create_or_update_plan_notes_first(P, T, current_user_id, plan_date, request) ==
    LET plan_date_obj == ParsePlanDate(plan_date)
        existing == SelectPlans(P, current_user_id, Get(plan_date_obj))
        checked == IF request.task_order # None
                   THEN ValidateTaskOrder(T, current_user_id, Get(request.task_order))
                   ELSE "ok"
        noted == {IF p \in existing
                  THEN [p EXCEPT !.notes = IF request.notes # None THEN request.notes ELSE @,
                                 !.mood = IF request.mood # None THEN request.mood ELSE @]
                  ELSE p : p \in P}
    IN  IF plan_date_obj = None
          THEN [result |-> "PLAN_INVALID_DATE", plans |-> P, plan_id |-> 0]
        ELSE IF Get(plan_date_obj) > Today + 7
          THEN [result |-> "PLAN_DATE_TOO_FAR", plans |-> P, plan_id |-> 0]
        ELSE IF checked # "ok"
          THEN [result |-> checked, plans |-> noted, plan_id |-> 0]
        ELSE IF existing # {}
          THEN LET existing_plan == CHOOSE p \in existing : TRUE
                   updated ==
                     [existing_plan EXCEPT
                        !.task_order = IF request.task_order # None
                                       THEN Get(request.task_order) ELSE @,
                        !.notes = IF request.notes # None THEN request.notes ELSE @,
                        !.mood = IF request.mood # None THEN request.mood ELSE @]
               IN  [result |-> "ok",
                    plans |-> (P \ {existing_plan}) \cup {updated},
                    plan_id |-> existing_plan.id]
        ELSE LET plan == [id |-> Cardinality(P) + 1,
                          user_id |-> current_user_id,
                          plan_date |-> Get(plan_date_obj),
                          task_order |-> IF request.task_order # None
                                         THEN Get(request.task_order) ELSE <<>>,
                          notes |-> request.notes,
                          mood |-> request.mood]
             IN  [result |-> "ok", plans |-> P \cup {plan}, plan_id |-> plan.id]

(* plans.py: create_or_update_plan; returns the response code and the     *)
(* daily_plans table after the call                                        *)
create_or_update_plan(P, T, current_user_id, plan_date, request) ==
    LET plan_date_obj == ParsePlanDate(plan_date)
        existing == SelectPlans(P, current_user_id, Get(plan_date_obj))
        checked == IF request.task_order # None
                   THEN ValidateTaskOrder(T, current_user_id, Get(request.task_order))
                   ELSE "ok"
    IN  IF plan_date_obj = None
          THEN [result |-> "PLAN_INVALID_DATE", plans |-> P, plan_id |-> 0]
        ELSE IF Get(plan_date_obj) > Today + 7
          THEN [result |-> "PLAN_DATE_TOO_FAR", plans |-> P, plan_id |-> 0]
        ELSE IF checked # "ok"
          THEN [result |-> checked, plans |-> P, plan_id |-> 0]
        ELSE IF existing # {}
          THEN LET existing_plan == CHOOSE p \in existing : TRUE
                   updated ==
                     [existing_plan EXCEPT
                        !.task_order = IF request.task_order # None
                                       THEN Get(request.task_order) ELSE @,
                        !.notes = IF request.notes # None THEN request.notes ELSE @,
                        !.mood = IF request.mood # None THEN request.mood ELSE @]
               IN  [result |-> "ok",
                    plans |-> (P \ {existing_plan}) \cup {updated},
                    plan_id |-> existing_plan.id]
        ELSE LET plan == [id |-> Cardinality(P) + 1,
                          user_id |-> current_user_id,
                          plan_date |-> Get(plan_date_obj),
                          task_order |-> IF request.task_order # None
                                         THEN Get(request.task_order) ELSE <<>>,
                          notes |-> request.notes,
                          mood |-> request.mood]
             IN  [result |-> "ok", plans |-> P \cup {plan}, plan_id |-> plan.id]

(* reorder_tasks that appends the new order to the stored one *)
reorder_tasks_merging(P, T, current_user_id, plan_date, task_order) ==
    LET plan_date_obj == ParsePlanDate(plan_date)
        found == SelectPlans(P, current_user_id, Get(plan_date_obj))
    IN  IF ~ReorderTasksRequestValid(task_order)
          THEN [result |-> "VALIDATION_ERROR", plans |-> P, plan_id |-> 0]
        ELSE IF plan_date_obj = None
          THEN [result |-> "PLAN_INVALID_DATE", plans |-> P, plan_id |-> 0]
        ELSE IF found = {}
          THEN [result |-> "PLAN_NOT_FOUND", plans |-> P, plan_id |-> 0]
        ELSE LET plan == CHOOSE p \in found : TRUE
             IN  [result |-> "ok",
                  plans |-> (P \ {plan})
                            \cup {[plan EXCEPT !.task_order = @ \o task_order]},
                  plan_id |-> plan.id]

(* plans.py: reorder_tasks *)
reorder_tasks(P, T, current_user_id, plan_date, task_order) ==
    LET plan_date_obj == ParsePlanDate(plan_date)
        found == SelectPlans(P, current_user_id, Get(plan_date_obj))
    IN  IF ~ReorderTasksRequestValid(task_order)
          THEN [result |-> "VALIDATION_ERROR", plans |-> P, plan_id |-> 0]
        ELSE IF plan_date_obj = None
          THEN [result |-> "PLAN_INVALID_DATE", plans |-> P, plan_id |-> 0]
        ELSE IF found = {}
          THEN [result |-> "PLAN_NOT_FOUND", plans |-> P, plan_id |-> 0]
        ELSE LET plan == CHOOSE p \in found : TRUE
             IN  [result |-> "ok",
                  plans |-> (P \ {plan}) \cup {[plan EXCEPT !.task_order = task_order]},
                  plan_id |-> plan.id]

----------------------------------------------------------------------------
(* plans.py: complete_plan *)

(* the rows with skipped_reason = request.notes whatever the outcome *)
StagedCompletionsReasonAlways(T, plan, current_user_id, request, call) ==
    {[id |-> <<call, task_id>>,
      task_id |-> task_id,
      daily_plan_id |-> plan.id,
      planned_position |-> PlannedPosition(plan.task_order, task_id),
      actual_completed |-> request.task_completions[task_id],
      completed_at |-> IF request.task_completions[task_id] THEN Some(Now) ELSE None,
      skipped_reason |-> request.notes]
     : task_id \in {t \in DOMAIN request.task_completions :
                       SelectOwnedTask(T, t, current_user_id) # None}}

(* the TaskCompletion rows added to the session by the loop over          *)
(* request.task_completions.items(); call numbers the request, standing   *)
(* for the fresh primary keys of its rows                                  *)
StagedCompletions(T, plan, current_user_id, request, call) ==
    {[id |-> <<call, task_id>>,
      task_id |-> task_id,
      daily_plan_id |-> plan.id,
      planned_position |-> PlannedPosition(plan.task_order, task_id),
      actual_completed |-> request.task_completions[task_id],
      completed_at |-> IF request.task_completions[task_id] THEN Some(Now) ELSE None,
      skipped_reason |-> IF request.task_completions[task_id] THEN None ELSE request.notes]
     : task_id \in {t \in DOMAIN request.task_completions :
                       SelectOwnedTask(T, t, current_user_id) # None}}

(* the Task rows as modified in the session by the same loop *)
StagedTasks(T, current_user_id, request) ==
    [t \in DOMAIN T |->
        IF /\ t \in DOMAIN request.task_completions
           /\ SelectOwnedTask(T, t, current_user_id) # None
           /\ request.task_completions[t]
        THEN [T[t] EXCEPT !.status = COMPLETED, !.completed_at = Some(Now)]
        ELSE T[t]]

(* the plan row after "Update plan notes and mood" *)
StagedPlan(plan, request) ==
    [plan EXCEPT !.notes = IF request.notes # None THEN request.notes ELSE @,
                 !.mood = IF request.mood # None THEN request.mood ELSE @]

(* the reflection statistics of the response; completion_rate is kept as  *)
(* the exact fraction completed_tasks / total_tasks, 0/1 standing for 0.0 *)
ReflectionStats(total_tasks, completed_tasks, mood) ==
    [total_tasks |-> total_tasks,
     completed_tasks |-> completed_tasks,
     completion_rate |-> IF total_tasks > 0 THEN <<completed_tasks, total_tasks>>
                         ELSE <<0, 1>>,
     mood |-> mood]

NoStats == ReflectionStats(0, 0, None)

(* complete_plan with a commit after each db.add(completion): the rows    *)
(* are committed before the task updates and survive a failure of the     *)
(* final commit                                                            *)
complete_plan_commit_each(P, T, C, current_user_id, plan_date, request, call, commit_ok) ==
    LET plan_date_obj == ParsePlanDate(plan_date)
        found == SelectPlans(P, current_user_id, Get(plan_date_obj))
        unchanged == [plans |-> P, tasks |-> T, completions |-> C,
                      plan_id |-> 0, stats |-> NoStats]
    IN  IF plan_date_obj = None
          THEN [result |-> "PLAN_INVALID_DATE"] @@ unchanged
        ELSE IF found = {}
          THEN [result |-> "PLAN_NOT_FOUND"] @@ unchanged
        ELSE LET plan == CHOOSE p \in found : TRUE
                 staged == StagedPlan(plan, request)
                 completed_tasks ==
                     Cardinality({t \in DOMAIN request.task_completions :
                                     request.task_completions[t]})
                 rows == C \cup StagedCompletions(T, plan, current_user_id, request, call)
             IN  IF commit_ok
                 THEN [result |-> "ok",
                       plans |-> (P \ {plan}) \cup {staged},
                       tasks |-> StagedTasks(T, current_user_id, request),
                       completions |-> rows,
                       plan_id |-> plan.id,
                       stats |-> ReflectionStats(Len(staged.task_order),
                                                 completed_tasks, staged.mood)]
                 ELSE [result |-> "INTERNAL_ERROR", completions |-> rows] @@ unchanged

(* complete_plan with total_tasks counted from the outcomes supplied *)
complete_plan_total_of_outcomes(P, T, C, current_user_id, plan_date, request, call, commit_ok) ==
    LET plan_date_obj == ParsePlanDate(plan_date)
        found == SelectPlans(P, current_user_id, Get(plan_date_obj))
        unchanged == [plans |-> P, tasks |-> T, completions |-> C,
                      plan_id |-> 0, stats |-> NoStats]
    IN  IF plan_date_obj = None
          THEN [result |-> "PLAN_INVALID_DATE"] @@ unchanged
        ELSE IF found = {}
          THEN [result |-> "PLAN_NOT_FOUND"] @@ unchanged
        ELSE LET plan == CHOOSE p \in found : TRUE
                 staged == StagedPlan(plan, request)
                 completed_tasks ==
                     Cardinality({t \in DOMAIN request.task_completions :
                                     request.task_completions[t]})
             IN  IF commit_ok
                 THEN [result |-> "ok",
                       plans |-> (P \ {plan}) \cup {staged},
                       tasks |-> StagedTasks(T, current_user_id, request),
                       completions |-> C \cup StagedCompletions(T, plan, current_user_id,
                                                                request, call),
                       plan_id |-> plan.id,
                       stats |-> ReflectionStats(Cardinality(DOMAIN request.task_completions),
                                                 completed_tasks, staged.mood)]
                 ELSE [result |-> "INTERNAL_ERROR"] @@ unchanged

(* commit_ok is the outcome of the single "await db.commit()": the        *)
(* session's pending inserts and updates are flushed in one transaction,  *)
(* which either commits or raises and is rolled back                       *)
complete_plan(P, T, C, current_user_id, plan_date, request, call, commit_ok) ==
    LET plan_date_obj == ParsePlanDate(plan_date)
        found == SelectPlans(P, current_user_id, Get(plan_date_obj))
        unchanged == [plans |-> P, tasks |-> T, completions |-> C,
                      plan_id |-> 0, stats |-> NoStats]
    IN  IF plan_date_obj = None
          THEN [result |-> "PLAN_INVALID_DATE"] @@ unchanged
        ELSE IF found = {}
          THEN [result |-> "PLAN_NOT_FOUND"] @@ unchanged
        ELSE LET plan == CHOOSE p \in found : TRUE
                 staged == StagedPlan(plan, request)
                 completed_tasks ==
                     Cardinality({t \in DOMAIN request.task_completions :
                                     request.task_completions[t]})
             IN  IF commit_ok
                 THEN [result |-> "ok",
                       plans |-> (P \ {plan}) \cup {staged},
                       tasks |-> StagedTasks(T, current_user_id, request),
                       completions |-> C \cup StagedCompletions(T, plan, current_user_id,
                                                                request, call),
                       plan_id |-> plan.id,
                       stats |-> ReflectionStats(Len(staged.task_order),
                                                 completed_tasks, staged.mood)]
                 ELSE [result |-> "INTERNAL_ERROR"] @@ unchanged

----------------------------------------------------------------------------
(* plans.py: get_plan_reflection; read-only *)

get_plan_reflection(P, C, current_user_id, plan_date) ==
    LET plan_date_obj == ParsePlanDate(plan_date)
        found == SelectPlans(P, current_user_id, Get(plan_date_obj))
    IN  IF plan_date_obj = None
          THEN [result |-> "PLAN_INVALID_DATE", stats |-> NoStats]
        ELSE IF found = {}
          THEN [result |-> "PLAN_NOT_FOUND", stats |-> NoStats]
        ELSE LET plan == CHOOSE p \in found : TRUE
                 rows == {c \in C : c.daily_plan_id = plan.id}
                 completed_tasks == Cardinality({c \in rows : c.actual_completed})
             IN  [result |-> "ok",
                  stats |-> ReflectionStats(Len(plan.task_order), completed_tasks,
                                            plan.mood)]

----------------------------------------------------------------------------
(* tasks.py *)

(* the primary key of the next row of tasks: an opaque fresh value, here  *)
(* the least number not yet in use                                         *)
FreshTaskId(T) == Cardinality(DOMAIN T) + 1

(* create_task: a row with a fresh primary key and status pending *)
create_task(T, current_user_id, id) ==
    [t \in DOMAIN T \cup {id} |->
        IF t = id
        THEN [user_id |-> current_user_id, status |-> PENDING, completed_at |-> None]
        ELSE T[t]]

(* get_task: read-only *)
get_task(T, current_user_id, task_id) ==
    IF ~TaskFound(T, task_id, current_user_id)
    THEN [result |-> "TASK_NOT_FOUND", task |-> None]
    ELSE [result |-> "ok", task |-> Some(T[task_id])]

(* update_task: setattr for every field of TaskUpdate that was set; of    *)
(* the modelled columns only status is a field of TaskUpdate               *)
update_task(T, current_user_id, task_id, status) ==
    IF ~TaskFound(T, task_id, current_user_id)
    THEN [result |-> "TASK_NOT_FOUND", tasks |-> T]
    ELSE [result |-> "ok",
          tasks |-> IF status # None
                    THEN [T EXCEPT ![task_id].status = Get(status)]
                    ELSE T]

(* a delete that removes the row instead of marking it cancelled *)
delete_task_removing_row(T, current_user_id, task_id) ==
    IF ~TaskFound(T, task_id, current_user_id)
    THEN [result |-> "TASK_NOT_FOUND", tasks |-> T]
    ELSE [result |-> "ok", tasks |-> [t \in DOMAIN T \ {task_id} |-> T[t]]]

(* delete_task: soft delete *)
delete_task(T, current_user_id, task_id) ==
    IF ~TaskFound(T, task_id, current_user_id)
    THEN [result |-> "TASK_NOT_FOUND", tasks |-> T]
    ELSE [result |-> "ok", tasks |-> [T EXCEPT ![task_id].status = CANCELLED]]

(* complete_task *)
complete_task(T, current_user_id, task_id) ==
    IF ~TaskFound(T, task_id, current_user_id)
    THEN [result |-> "TASK_NOT_FOUND", tasks |-> T]
    ELSE [result |-> "ok",
          tasks |-> [T EXCEPT ![task_id].status = COMPLETED,
                              ![task_id].completed_at = Some(Now)]]

(* Task.created_at, kept as a column of its own: the row of task id gets   *)
(* the reading of the clock taken when the INSERT is flushed               *)
Stamped(CA, id, at) == [t \in DOMAIN CA \cup {id} |-> IF t = id THEN at ELSE CA[t]]

(* the first n elements of a sequence: .limit(n) *)
Take(seq, n) == SubSeq(seq, 1, IF Len(seq) < n THEN Len(seq) ELSE n)

(* order_by(Task.created_at.desc(), Task.id.desc()) over the rows S *)
OrderByCreatedAtDescIdDesc(CA, S) ==
    [i \in 1..Cardinality(S) |->
        CHOOSE x \in S :
            Cardinality({y \in S : CA[y] > CA[x] \/ (CA[y] = CA[x] /\ y > x)}) = i - 1]

(* the cursor condition without the comparison of the IDs of rows with     *)
(* the created_at of the cursor row                                        *)
AfterCursorByCreatedAtOnly(CA, S, cursor) ==
    {t \in S : CA[t] < CA[cursor]}

(* where(or_(created_at < cursor_task.created_at,                          *)
(*           and_(created_at == cursor_task.created_at,                    *)
(*                id < cursor_task.id)))                                   *)
AfterCursor(CA, S, cursor) ==
    {t \in S : CA[t] < CA[cursor] \/ (CA[t] = CA[cursor] /\ t < cursor)}

(* list_tasks that answers a cursor it cannot resolve with an empty page *)
list_tasks_unchecked_cursor(T, CA, current_user_id, status, include_cancelled, cursor, limit) ==
    LET owned == {t \in DOMAIN T : T[t].user_id = current_user_id}
        not_cancelled == IF ~include_cancelled /\ status = None
                         THEN {t \in owned : T[t].status # CANCELLED}
                         ELSE owned
        filtered == IF status # None
                    THEN {t \in not_cancelled : T[t].status = Get(status)}
                    ELSE not_cancelled
        after == IF cursor = None THEN filtered
                 ELSE IF TaskFound(T, Get(cursor), current_user_id)
                      THEN AfterCursor(CA, filtered, Get(cursor))
                 ELSE {}
        rows == Take(OrderByCreatedAtDescIdDesc(CA, after), limit + 1)
        has_more == Len(rows) > limit
        page == IF has_more THEN SubSeq(rows, 1, limit) ELSE rows
        error == [tasks |-> <<>>, has_more |-> FALSE, next_cursor |-> None]
    IN  IF limit <= 0 \/ limit > 100
          THEN [result |-> "TASK_INVALID_LIMIT"] @@ error
        ELSE [result |-> "ok",
              tasks |-> page,
              has_more |-> has_more,
              next_cursor |-> IF Len(page) > 0 /\ has_more
                              THEN Some(page[Len(page)]) ELSE None]

(* list_tasks with the status filter, include_cancelled, cursor and limit; *)
(* the filters on priority, category, due date and text are left out       *)
list_tasks(T, CA, current_user_id, status, include_cancelled, cursor, limit) ==
    LET owned == {t \in DOMAIN T : T[t].user_id = current_user_id}
        not_cancelled == IF ~include_cancelled /\ status = None
                         THEN {t \in owned : T[t].status # CANCELLED}
                         ELSE owned
        filtered == IF status # None
                    THEN {t \in not_cancelled : T[t].status = Get(status)}
                    ELSE not_cancelled
        after == IF cursor # None
                 THEN AfterCursor(CA, filtered, Get(cursor))
                 ELSE filtered
        rows == Take(OrderByCreatedAtDescIdDesc(CA, after), limit + 1)
        has_more == Len(rows) > limit
        page == IF has_more THEN SubSeq(rows, 1, limit) ELSE rows
        error == [tasks |-> <<>>, has_more |-> FALSE, next_cursor |-> None]
    IN  IF limit <= 0 \/ limit > 100
          THEN [result |-> "TASK_INVALID_LIMIT"] @@ error
        ELSE IF cursor # None /\ ~TaskFound(T, Get(cursor), current_user_id)
          THEN [result |-> "TASK_INVALID_CURSOR"] @@ error
        ELSE [result |-> "ok",
              tasks |-> page,
              has_more |-> has_more,
              next_cursor |-> IF Len(page) > 0 /\ has_more
                              THEN Some(page[Len(page)]) ELSE None]

(* a client that pages through its tasks by passing each next_cursor back: *)
(* the parameters of its requests, the IDs returned so far, the number of  *)
(* pages fetched, whether no write was committed since the first page, and *)
(* the IDs of the tasks committed since the first page                     *)
NoWalk ==
    [phase |-> "idle", user |-> "u1", status |-> None, include_cancelled |-> FALSE,
     limit |-> 1, cursor |-> None, fetched |-> <<>>, pages |-> 0,
     quiet |-> TRUE, late |-> {}]

----------------------------------------------------------------------------
(* The requests the clients send.  A request whose plan_date is rejected  *)
(* before the body is looked at is sent with one body only.               *)

ValidPlanDate(d) == ParsePlanDate(d) # None /\ Get(ParsePlanDate(d)) <= Today + 7

PlanRequests ==
    {r \in [plan_date : PlanDateStrings,
            task_order : {None} \cup {Some(x) : x \in Orders},
            notes : NotesValues, mood : MoodValues] :
        ValidPlanDate(r.plan_date)
        \/ (r.task_order = Some(<<1>>) /\ r.notes = None /\ r.mood = None)}

ReorderRequests ==
    {r \in [plan_date : PlanDateStrings, task_order : Orders] :
        ValidPlanDate(r.plan_date) \/ r.task_order = <<1>>}

CompleteRequests ==
    {r \in [plan_date : PlanDateStrings, task_completions : Outcomes,
            notes : NotesValues, mood : MoodValues] :
        /\ (r.notes = None) = (r.mood = None)
        /\ ValidPlanDate(r.plan_date) \/ r.task_completions = <<>>}

StatusUpdates == {None} \cup {Some(x) : x \in TaskStatus}

----------------------------------------------------------------------------
(* The response to a request of user u in the current state, with the     *)
(* tables as the handler leaves them                                       *)

Upsert(u, r) ==
    create_or_update_plan(plans, tasks, u, r.plan_date,
                          DailyPlanCreate(r.task_order, r.notes, r.mood))

Reorder(u, r) == reorder_tasks(plans, tasks, u, r.plan_date, r.task_order)

Complete(u, r, commit_ok) ==
    complete_plan(plans, tasks, completions, u, r.plan_date,
                  [task_completions |-> r.task_completions, notes |-> r.notes,
                   mood |-> r.mood],
                  nops + 1, commit_ok)

----------------------------------------------------------------------------
(* The ordering suggestion: services/suggestions.py and the suggestions   *)
(* route of routers/intelligence.py                                        *)

MaxRanked == 2

Priorities == 1..4
UnknownTask == 0

(* a due date: a timestamp with time zone, read back from the store in UTC *)
Datetime(year, month, day, hour) ==
    [year |-> year, month |-> month, day |-> day, hour |-> hour]

DueDates ==
    {Datetime(2026, 11, 2, 9), Datetime(2026, 11, 10, 9), Datetime(9999, 12, 31, 0)}

(* the instant of a datetime, in hours *)
Instant(d) == ((d.year * 12 + d.month) * 31 + d.day) * 24 + d.hour

(* a string is the sequence of the code points of its characters *)
Digits(n, width) == [i \in 1..width |-> 48 + ((n \div (10 ^ (width - i))) % 10)]

(* str(datetime): "YYYY-MM-DD HH:MM:SS+00:00" *)
StrDatetime(d) ==
    Digits(d.year, 4) \o <<45>> \o Digits(d.month, 2) \o <<45>> \o Digits(d.day, 2)
    \o <<32>> \o Digits(d.hour, 2) \o <<58, 48, 48, 58, 48, 48>>
    \o <<43, 48, 48, 58, 48, 48>>

(* "9999-12-31" *)
NoDueDateKey == <<57, 57, 57, 57, 45, 49, 50, 45, 51, 49>>

(* a < b on str: the first differing character decides, a proper prefix   *)
(* comes first                                                             *)
StrLess(a, b) ==
    \E i \in 1..(Len(a) + 1) :
        /\ \A j \in 1..(i - 1) : j <= Len(b) /\ a[j] = b[j]
        /\ \/ i = Len(a) + 1 /\ Len(b) >= i
           \/ i <= Len(a) /\ i <= Len(b) /\ a[i] < b[i]

(* key=lambda t: (-t.priority, str(t.due_date or "9999-12-31")) *)
SortKey(t) ==
    <<0 - t.priority,
      IF t.due_date = None THEN NoDueDateKey ELSE StrDatetime(Get(t.due_date))>>

(* the comparison of two keys, as tuples *)
SortKeyLess(a, b) ==
    \/ SortKey(a)[1] < SortKey(b)[1]
    \/ SortKey(a)[1] = SortKey(b)[1] /\ StrLess(SortKey(a)[2], SortKey(b)[2])

(* sorted(tasks, key=...): stable, tasks of equal key keep their order *)
RECURSIVE sorted(_)
sorted(ts) ==
    IF ts = <<>> THEN <<>>
    ELSE LET t == Head(ts)
             rest == sorted(Tail(ts))
         IN  SelectSeq(rest, LAMBDA x : SortKeyLess(x, t))
             \o <<t>>
             \o SelectSeq(rest, LAMBDA x : ~SortKeyLess(x, t))

(* What the ranking oracle answers.  raises: the request failed, timed    *)
(* out, or the text is not JSON (json.loads raises).  Otherwise the       *)
(* parsed object: each key is missing, holds a value of a wrong type, or  *)
(* holds a list                                                            *)
Field(kind, value) == [kind |-> kind, value |-> value]
Missing == "missing"
WrongType == "wrong_type"
List == "list"
OracleOrders == {<<>>, <<1>>, <<2, 1>>, <<UnknownTask>>, <<1, UnknownTask>>}
OracleNotes == {<<>>, <<[task_id |-> 1, reason |-> "r"]>>}
OracleRaises ==
    [raises |-> TRUE, task_order |-> Field(Missing, <<>>),
     reasoning |-> Field(Missing, <<>>), warnings |-> Field(Missing, <<>>)]
OracleOutputs ==
    [raises : {FALSE},
     task_order : {Field(Missing, <<>>), Field(WrongType, <<>>)}
                  \cup {Field(List, o) : o \in OracleOrders},
     reasoning : {Field(Missing, <<>>), Field(WrongType, <<>>)}
                 \cup {Field(List, x) : x \in OracleNotes},
     warnings : {Field(Missing, <<>>), Field(List, <<>>)}]
    \cup {OracleRaises}

(* result.get(key, default) *)
DictGet(field, default) == IF field.kind = Missing THEN default ELSE field.value

(* a response: the three lists, and the keys that hold no list (none in a *)
(* SuggestionResponse, whose fields are validated lists)                   *)
SuggestionResponse(task_order, reasoning, warnings) ==
    [task_order |-> task_order, reasoning |-> reasoning, warnings |-> warnings,
     not_lists |-> {}]

(* services/suggestions.py: rule_based_suggest, and the except branch of  *)
(* suggest_order and of get_suggestions                                    *)
rule_based_suggest(ts) ==
    SuggestionResponse([i \in 1..Len(ts) |-> sorted(ts)[i].id], <<>>, <<>>)

(* routers/intelligence.py: get_suggestions from "try:" on; task_ids is   *)
(* request.task_ids and ts the caller's tasks among them.  Building the   *)
(* SuggestionResponse raises on a value that is not a list of the         *)
(* declared type, and the except branch answers                            *)
get_suggestions(task_ids, ts, oracle) ==
    IF \/ oracle.raises
       \/ oracle.task_order.kind = WrongType
       \/ oracle.reasoning.kind = WrongType
       \/ oracle.warnings.kind = WrongType
    THEN rule_based_suggest(ts)
    ELSE SuggestionResponse(DictGet(oracle.task_order, task_ids),
                            DictGet(oracle.reasoning, <<>>),
                            DictGet(oracle.warnings, <<>>))

(* services/suggestions.py: suggest_order; the parsed object is returned  *)
(* as it is                                                                *)
suggest_order(ts, oracle) ==
    IF oracle.raises THEN rule_based_suggest(ts)
    ELSE [task_order |-> oracle.task_order.value,
          reasoning |-> oracle.reasoning.value,
          warnings |-> oracle.warnings.value,
          not_lists |-> {k \in {"task_order", "reasoning", "warnings"} :
                           oracle[k].kind # List}]

(* the tasks handed to the ranker: task i of the list has id i *)
RankedTasks ==
    UNION {{[i \in 1..n |-> [id |-> i, priority |-> f[i].priority,
                             due_date |-> f[i].due_date]]
            : f \in [1..n -> [priority : Priorities,
                              due_date : {None} \cup {Some(d) : d \in DueDates}]]}
           : n \in 0..MaxRanked}

(* request.task_ids: the ids of the tasks, in the order of the list *)
TaskIdsOf(ts) == [i \in 1..Len(ts) |-> ts[i].id]

NoSuggestion ==
    [phase |-> "idle", tasks |-> <<>>, oracle |-> OracleRaises, via |-> "",
     response |-> SuggestionResponse(<<>>, <<>>, <<>>)]

----------------------------------------------------------------------------
(* Requests on the plans that run at the same time.  A handler reads in   *)
(* its own session (the SELECTs up to the last await before the commit)   *)
(* and writes at "await db.commit()": the rows it added are inserted and  *)
(* the columns it assigned are updated on the rows it loaded, under read  *)
(* committed isolation, no row being locked by the reads.                  *)

MaxCalls == 2
CallIds == 1..MaxCalls

NoTxn ==
    [op |-> "none", phase |-> "idle", user |-> "", plan_date |-> "",
     task_order |-> None, task_completions |-> <<>>, notes |-> None, mood |-> None,
     plan |-> None, rows |-> {}, completed |-> {}, raised |-> "", result |-> ""]

NoTxns == [c \in CallIds |-> NoTxn]

(* a call that was answered: its session is closed *)
Answered(txn, result, raised) ==
    [NoTxn EXCEPT !.op = txn.op, !.user = txn.user, !.phase = "done",
                  !.result = result, !.raised = raised]

(* the primary key of the rows of call c of complete_plan *)
CallNumber(c) == MaxOps + c

(* UPDATE daily_plans SET ... WHERE id = plan.id: the columns the handler *)
(* assigned; a column a request leaves out (None) is not assigned          *)
UpdatePlanColumns(P, plan_id, task_order, notes, mood) ==
    {IF p.id = plan_id
     THEN [p EXCEPT !.task_order = IF task_order # None THEN Get(task_order) ELSE @,
                    !.notes = IF notes # None THEN notes ELSE @,
                    !.mood = IF mood # None THEN mood ELSE @]
     ELSE p : p \in P}

(* INSERT INTO daily_plans: uq_daily_plan_user_date rejects a second row  *)
(* of the same user_id and plan_date                                       *)
DuplicatePlanKey(P, user_id, plan_date_obj) ==
    \E p \in P : p.user_id = user_id /\ p.plan_date = plan_date_obj

----------------------------------------------------------------------------
(* The state machine: one action per request handler *)

Init ==
    /\ tasks = <<>>
    /\ plans = {}
    /\ completions = {}
    /\ nops = 0
    /\ created_at = <<>>
    /\ inflight = {}
    /\ walk = NoWalk
    /\ txns = NoTxns
    /\ suggestion = NoSuggestion

CreateTask(u) ==
    /\ nops < MaxOps
    /\ FreshTaskId(tasks) \in TaskIds
    /\ tasks' = create_task(tasks, u, FreshTaskId(tasks))
    /\ created_at' = Stamped(created_at, FreshTaskId(tasks), Now)
    /\ nops' = nops + 1
    /\ UNCHANGED <<plans, completions, inflight, walk, txns, suggestion>>

UpdateTask(u, t, status) ==
    /\ nops < MaxOps
    /\ tasks' = update_task(tasks, u, t, status).tasks
    /\ nops' = nops + 1
    /\ UNCHANGED <<plans, completions, created_at, inflight, walk, txns, suggestion>>

(* a delete that also takes the task out of the task_order of every plan *)
DeleteTaskPruningPlans(u, t) ==
    /\ nops < MaxOps
    /\ tasks' = delete_task(tasks, u, t).tasks
    /\ plans' = IF TaskFound(tasks, t, u)
                THEN {[p EXCEPT !.task_order = SelectSeq(@, LAMBDA x : x # t)] : p \in plans}
                ELSE plans
    /\ nops' = nops + 1
    /\ UNCHANGED <<completions, created_at, inflight, walk, txns, suggestion>>

DeleteTask(u, t) ==
    /\ nops < MaxOps
    /\ tasks' = delete_task(tasks, u, t).tasks
    /\ nops' = nops + 1
    /\ UNCHANGED <<plans, completions, created_at, inflight, walk, txns, suggestion>>

CompleteTask(u, t) ==
    /\ nops < MaxOps
    /\ tasks' = complete_task(tasks, u, t).tasks
    /\ nops' = nops + 1
    /\ UNCHANGED <<plans, completions, created_at, inflight, walk, txns, suggestion>>

CreateOrUpdatePlan(u, r) ==
    /\ nops < MaxOps
    /\ plans' = Upsert(u, r).plans
    /\ nops' = nops + 1
    /\ UNCHANGED <<tasks, completions, created_at, inflight, walk, txns, suggestion>>

ReorderTasks(u, r) ==
    /\ nops < MaxOps
    /\ plans' = Reorder(u, r).plans
    /\ nops' = nops + 1
    /\ UNCHANGED <<tasks, completions, created_at, inflight, walk, txns, suggestion>>

CompletePlan(u, r, commit_ok) ==
    /\ nops < MaxOps
    /\ LET res == Complete(u, r, commit_ok)
       IN  /\ plans' = res.plans
           /\ tasks' = res.tasks
           /\ completions' = res.completions
    /\ nops' = nops + 1
    /\ UNCHANGED <<created_at, inflight, walk, txns, suggestion>>

Next ==
    \/ \E u \in Users : CreateTask(u)
    \/ \E u \in Users, t \in TaskIds, s \in StatusUpdates : UpdateTask(u, t, s)
    \/ \E u \in Users, t \in TaskIds : DeleteTask(u, t)
    \/ \E u \in Users, t \in TaskIds : CompleteTask(u, t)
    \/ \E u \in Users, r \in PlanRequests : CreateOrUpdatePlan(u, r)
    \/ \E u \in Users, r \in ReorderRequests : ReorderTasks(u, r)
    \/ \E u \in Users, r \in CompleteRequests, ok \in BOOLEAN : CompletePlan(u, r, ok)

Spec == Init /\ [][Next]_vars

(* The plan handlers over tasks that are created and cancelled only *)
NextPlans ==
    \/ \E u \in Users : CreateTask(u)
    \/ \E u \in Users, t \in TaskIds : DeleteTask(u, t)
    \/ \E u \in Users, r \in PlanRequests : CreateOrUpdatePlan(u, r)
    \/ \E u \in Users, r \in ReorderRequests : ReorderTasks(u, r)
    \/ \E u \in Users, r \in CompleteRequests, ok \in BOOLEAN : CompletePlan(u, r, ok)

SpecPlans == Init /\ [][NextPlans]_vars

----------------------------------------------------------------------------
(* Paging through the tasks while tasks are created and cancelled.  The    *)
(* INSERT of create_task is flushed, with created_at read from the clock,  *)
(* and committed afterwards: requests of other clients run in between.     *)

RowIds == 1..MaxRows
Stamps == 0..MaxClock
Limits == 0..MaxLimit
StatusFilters == {None, Some(CANCELLED)}

(* the latest reading of the clock handed out so far *)
LatestStamp ==
    LET given == {created_at[t] : t \in DOMAIN created_at}
                 \cup {row.created_at : row \in inflight}
    IN  IF given = {} THEN 0 ELSE CHOOSE m \in given : \A x \in given : x <= m

(* the walk after a write was committed *)
Written(ids) ==
    IF walk.phase # "idle"
    THEN [walk EXCEPT !.quiet = FALSE, !.late = @ \cup ids]
    ELSE walk

(* create_task up to the flush: a fresh random id, created_at = now *)
BeginCreate(u, id, at) ==
    /\ id \notin DOMAIN tasks \cup {row.id : row \in inflight}
    /\ at >= LatestStamp
    /\ inflight' = inflight \cup {[id |-> id, user_id |-> u, created_at |-> at]}
    /\ UNCHANGED <<tasks, plans, completions, nops, created_at, walk, txns, suggestion>>

(* create_task: the commit *)
CommitCreate(row) ==
    /\ tasks' = create_task(tasks, row.user_id, row.id)
    /\ created_at' = Stamped(created_at, row.id, row.created_at)
    /\ inflight' = inflight \ {row}
    /\ walk' = Written({row.id})
    /\ UNCHANGED <<plans, completions, nops, txns, suggestion>>

(* delete_task of a listed task *)
CancelTask(u, t) ==
    /\ TaskFound(tasks, t, u)
    /\ tasks[t].status # CANCELLED
    /\ tasks' = delete_task(tasks, u, t).tasks
    /\ walk' = Written({})
    /\ UNCHANGED <<plans, completions, nops, created_at, inflight, txns, suggestion>>

(* list_tasks without a cursor: the first page *)
FirstPage(u, status, include_cancelled, limit) ==
    /\ walk.phase = "idle"
    /\ LET res == list_tasks(tasks, created_at, u, status, include_cancelled, None, limit)
       IN  walk' = IF res.result # "ok" THEN walk
                   ELSE [phase |-> IF res.next_cursor = None THEN "done" ELSE "paging",
                         user |-> u, status |-> status,
                         include_cancelled |-> include_cancelled, limit |-> limit,
                         cursor |-> res.next_cursor, fetched |-> res.tasks,
                         pages |-> 1, quiet |-> TRUE, late |-> {}]
    /\ UNCHANGED <<tasks, plans, completions, nops, created_at, inflight, txns, suggestion>>

(* list_tasks with the next_cursor of the page before *)
NextPage ==
    /\ walk.phase = "paging"
    /\ \E res \in {list_tasks(tasks, created_at, walk.user, walk.status,
                               walk.include_cancelled, walk.cursor, walk.limit)} :
           walk' = IF res.result # "ok" THEN [walk EXCEPT !.phase = "failed"]
                   ELSE [walk EXCEPT
                           !.phase = IF res.next_cursor = None THEN "done" ELSE "paging",
                           !.cursor = res.next_cursor,
                           !.fetched = @ \o res.tasks,
                           !.pages = @ + 1]
    /\ UNCHANGED <<tasks, plans, completions, nops, created_at, inflight, txns, suggestion>>

NextList ==
    \/ \E u \in Users, id \in RowIds, at \in Stamps : BeginCreate(u, id, at)
    \/ \E row \in inflight : CommitCreate(row)
    \/ \E u \in Users, t \in RowIds : CancelTask(u, t)
    \/ \E u \in Users, f \in StatusFilters, c \in BOOLEAN, n \in Limits : FirstPage(u, f, c, n)
    \/ NextPage

SpecList == Init /\ [][NextList]_vars

(* The same requests with no concurrency: one request at a time, and no    *)
(* write once the walk has fetched its first page                          *)
NextListQuiet ==
    \/ \E u \in Users, id \in RowIds, at \in Stamps :
          walk.phase = "idle" /\ inflight = {} /\ BeginCreate(u, id, at)
    \/ \E row \in inflight : walk.phase = "idle" /\ CommitCreate(row)
    \/ \E u \in Users, t \in RowIds :
          walk.phase = "idle" /\ inflight = {} /\ CancelTask(u, t)
    \/ \E u \in Users, f \in StatusFilters, c \in BOOLEAN, n \in Limits :
          inflight = {} /\ FirstPage(u, f, c, n)
    \/ NextPage

SpecListQuiet == Init /\ [][NextListQuiet]_vars

----------------------------------------------------------------------------
(* A client that keeps requesting the next page while tasks are created   *)
(* and cancelled between its requests, one request at a time               *)

(* the client; the tasks of other users are not rows of its listing *)
Client == CHOOSE u \in Users : TRUE

(* create_task, from the INSERT to the commit; the rows get their ids in  *)
(* the order of their creation                                             *)
CreateTaskAt(u, at) ==
    /\ inflight = {}
    /\ walk.phase \in {"idle", "paging"}
    /\ FreshTaskId(tasks) \in RowIds
    /\ at >= LatestStamp
    /\ tasks' = create_task(tasks, u, FreshTaskId(tasks))
    /\ created_at' = Stamped(created_at, FreshTaskId(tasks), at)
    /\ walk' = Written({FreshTaskId(tasks)})
    /\ UNCHANGED <<plans, completions, nops, inflight, txns, suggestion>>

NextPaging ==
    \/ \E at \in Stamps : CreateTaskAt(Client, at)
    \/ \E t \in RowIds : walk.phase \in {"idle", "paging"} /\ CancelTask(Client, t)
    \/ \E f \in StatusFilters, c \in BOOLEAN, n \in Limits : FirstPage(Client, f, c, n)
    \/ NextPage

(* the client sends its next request: a page that can be requested is     *)
(* requested                                                               *)
SpecPaging == Init /\ [][NextPaging]_vars /\ WF_vars(NextPage)

----------------------------------------------------------------------------
(* The steps of the plan handlers between which other requests run *)

(* create_or_update_plan up to "existing_plan = ..." *)
BeginCreateOrUpdatePlan(c, u, r) ==
    /\ txns[c].phase = "idle"
    /\ LET res == Upsert(u, r)
           existing == SelectPlans(plans, u, Get(ParsePlanDate(r.plan_date)))
       IN  txns' = [txns EXCEPT ![c] =
               IF res.result # "ok"
               THEN Answered([op |-> "upsert", user |-> u], res.result, "")
               ELSE [NoTxn EXCEPT
                       !.op = "upsert", !.user = u, !.phase = "read",
                       !.plan_date = r.plan_date, !.task_order = r.task_order,
                       !.notes = r.notes, !.mood = r.mood,
                       !.plan = IF existing # {}
                                THEN Some(CHOOSE p \in existing : TRUE) ELSE None]]
    /\ UNCHANGED <<tasks, plans, completions, nops, created_at, inflight, walk,
                   suggestion>>

(* create_or_update_plan: "await db.commit()" of either branch.  The      *)
(* IntegrityError of the INSERT is caught nowhere: the framework answers  *)
(* 500 Internal Server Error                                               *)
CommitCreateOrUpdatePlan(c) ==
    /\ txns[c].phase = "read" /\ txns[c].op = "upsert"
    /\ LET t == txns[c]
           plan_date_obj == Get(ParsePlanDate(t.plan_date))
       IN  IF t.plan # None
           THEN /\ plans' = UpdatePlanColumns(plans, Get(t.plan).id, t.task_order,
                                              t.notes, t.mood)
                /\ txns' = [txns EXCEPT ![c] = Answered(txns[c], "ok", "")]
           ELSE IF DuplicatePlanKey(plans, t.user, plan_date_obj)
           THEN /\ plans' = plans
                /\ txns' = [txns EXCEPT ![c] =
                               Answered(t, "INTERNAL_ERROR", "IntegrityError")]
           ELSE /\ plans' = plans \cup
                      {[id |-> Cardinality(plans) + 1,
                        user_id |-> t.user,
                        plan_date |-> plan_date_obj,
                        task_order |-> IF t.task_order # None
                                       THEN Get(t.task_order) ELSE <<>>,
                        notes |-> t.notes,
                        mood |-> t.mood]}
                /\ txns' = [txns EXCEPT ![c] = Answered(txns[c], "ok", "")]
    /\ UNCHANGED <<tasks, completions, nops, created_at, inflight, walk, suggestion>>

(* reorder_tasks up to "plan = result.scalar_one_or_none()" *)
BeginReorderTasks(c, u, r) ==
    /\ txns[c].phase = "idle"
    /\ LET res == Reorder(u, r)
           found == SelectPlans(plans, u, Get(ParsePlanDate(r.plan_date)))
       IN  txns' = [txns EXCEPT ![c] =
               IF res.result # "ok"
               THEN Answered([op |-> "reorder", user |-> u], res.result, "")
               ELSE [NoTxn EXCEPT
                       !.op = "reorder", !.user = u, !.phase = "read",
                       !.plan_date = r.plan_date,
                       !.task_order = Some(r.task_order),
                       !.plan = Some(CHOOSE p \in found : TRUE)]]
    /\ UNCHANGED <<tasks, plans, completions, nops, created_at, inflight, walk,
                   suggestion>>

(* reorder_tasks: "plan.task_order = request.task_order" and the commit *)
CommitReorderTasks(c) ==
    /\ txns[c].phase = "read" /\ txns[c].op = "reorder"
    /\ plans' = UpdatePlanColumns(plans, Get(txns[c].plan).id, txns[c].task_order,
                                  None, None)
    /\ txns' = [txns EXCEPT ![c] = Answered(txns[c], "ok", "")]
    /\ UNCHANGED <<tasks, completions, nops, created_at, inflight, walk, suggestion>>

(* complete_plan up to the commit: the plan is loaded, then the loop      *)
(* loads each task and adds its TaskCompletion, planned_position being    *)
(* read from the task_order of the loaded plan                             *)
BeginCompletePlan(c, u, r) ==
    /\ txns[c].phase = "idle"
    /\ LET request == [task_completions |-> r.task_completions, notes |-> r.notes,
                       mood |-> r.mood]
           plan_date_obj == ParsePlanDate(r.plan_date)
           found == SelectPlans(plans, u, Get(plan_date_obj))
           error == IF plan_date_obj = None THEN "PLAN_INVALID_DATE"
                    ELSE IF found = {} THEN "PLAN_NOT_FOUND" ELSE ""
           plan == CHOOSE p \in found : TRUE
       IN  txns' = [txns EXCEPT ![c] =
               IF error # ""
               THEN Answered([op |-> "complete", user |-> u], error, "")
               ELSE [NoTxn EXCEPT
                       !.op = "complete", !.user = u, !.phase = "read",
                       !.plan_date = r.plan_date,
                       !.task_completions = r.task_completions,
                       !.notes = r.notes, !.mood = r.mood,
                       !.plan = Some(plan),
                       !.rows = StagedCompletions(tasks, plan, u, request,
                                                  CallNumber(c)),
                       !.completed = {t \in DOMAIN r.task_completions :
                                        /\ SelectOwnedTask(tasks, t, u) # None
                                        /\ r.task_completions[t]}]]
    /\ UNCHANGED <<tasks, plans, completions, nops, created_at, inflight, walk,
                   suggestion>>

(* complete_plan: the single "await db.commit()" *)
CommitCompletePlan(c) ==
    /\ txns[c].phase = "read" /\ txns[c].op = "complete"
    /\ completions' = completions \cup txns[c].rows
    /\ tasks' = [t \in DOMAIN tasks |->
                    IF t \in txns[c].completed
                    THEN [tasks[t] EXCEPT !.status = COMPLETED,
                                          !.completed_at = Some(Now)]
                    ELSE tasks[t]]
    /\ plans' = UpdatePlanColumns(plans, Get(txns[c].plan).id, None,
                                  txns[c].notes, txns[c].mood)
    /\ txns' = [txns EXCEPT ![c] = Answered(txns[c], "ok", "")]
    /\ UNCHANGED <<nops, created_at, inflight, walk, suggestion>>

----------------------------------------------------------------------------
(* Two calls of one client on its plans, running at the same time, after  *)
(* the tasks and the plans were set up by requests that ran alone          *)

AllIdle == \A c \in CallIds : txns[c].phase = "idle"

(* the requests of the calls: an accepted date, notes and mood only on a  *)
(* completion                                                              *)
ConcurrentPlanRequests ==
    {r \in PlanRequests : ValidPlanDate(r.plan_date) /\ r.notes = None /\ r.mood = None}
ConcurrentReorderRequests == {r \in ReorderRequests : ValidPlanDate(r.plan_date)}
ConcurrentCompleteRequests == {r \in CompleteRequests : ValidPlanDate(r.plan_date)}

(* the calls are numbered as they arrive and come from one user *)
Arrives(c, u) ==
    /\ IF c = 1 THEN TRUE ELSE txns[c - 1].phase # "idle"
    /\ \A d \in CallIds : txns[d].phase = "idle" \/ txns[d].user = u

NextConcurrent ==
    \/ \E u \in Users : AllIdle /\ CreateTask(u)
    \/ \E u \in Users, r \in ConcurrentPlanRequests : AllIdle /\ CreateOrUpdatePlan(u, r)
    \/ \E c \in CallIds, u \in Users, r \in ConcurrentPlanRequests :
          Arrives(c, u) /\ BeginCreateOrUpdatePlan(c, u, r)
    \/ \E c \in CallIds : CommitCreateOrUpdatePlan(c)
    \/ \E c \in CallIds, u \in Users, r \in ConcurrentReorderRequests :
          Arrives(c, u) /\ BeginReorderTasks(c, u, r)
    \/ \E c \in CallIds : CommitReorderTasks(c)
    \/ \E c \in CallIds, u \in Users, r \in ConcurrentCompleteRequests :
          Arrives(c, u) /\ BeginCompletePlan(c, u, r)
    \/ \E c \in CallIds : CommitCompletePlan(c)

SpecConcurrent == Init /\ [][NextConcurrent]_vars

----------------------------------------------------------------------------
(* The ordering suggestion, asked for a list of tasks *)

InitSuggest ==
    /\ tasks = <<>>
    /\ plans = {}
    /\ completions = {}
    /\ nops = 0
    /\ created_at = <<>>
    /\ inflight = {}
    /\ walk = NoWalk
    /\ txns = NoTxns
    /\ suggestion \in {[NoSuggestion EXCEPT !.phase = "asked", !.tasks = ts]
                       : ts \in RankedTasks}

GetSuggestions(oracle) ==
    /\ suggestion.phase = "asked"
    /\ suggestion' = [suggestion EXCEPT
          !.phase = "answered", !.via = "get_suggestions", !.oracle = oracle,
          !.response = get_suggestions(TaskIdsOf(suggestion.tasks),
                                       suggestion.tasks, oracle)]
    /\ UNCHANGED <<tasks, plans, completions, nops, created_at, inflight, walk, txns>>

SuggestOrder(oracle) ==
    /\ suggestion.phase = "asked"
    /\ suggestion' = [suggestion EXCEPT
          !.phase = "answered", !.via = "suggest_order", !.oracle = oracle,
          !.response = suggest_order(suggestion.tasks, oracle)]
    /\ UNCHANGED <<tasks, plans, completions, nops, created_at, inflight, walk, txns>>

RuleBasedSuggest ==
    /\ suggestion.phase = "asked"
    /\ suggestion' = [suggestion EXCEPT
          !.phase = "answered", !.via = "rule_based_suggest",
          !.response = rule_based_suggest(suggestion.tasks)]
    /\ UNCHANGED <<tasks, plans, completions, nops, created_at, inflight, walk, txns>>

NextSuggest ==
    \/ \E oracle \in OracleOutputs : GetSuggestions(oracle)
    \/ \E oracle \in OracleOutputs : SuggestOrder(oracle)
    \/ RuleBasedSuggest

SpecSuggest == InitSuggest /\ [][NextSuggest]_vars

----------------------------------------------------------------------------
(* Vocabulary of the properties, stated over the tables directly *)

OrderErrors == {"PLAN_EMPTY_TASK_ORDER", "PLAN_DUPLICATE_TASK",
                "PLAN_INVALID_TASK", "PLAN_CANCELLED_TASK", "VALIDATION_ERROR"}

HasDuplicate(o) == \E i, j \in DOMAIN o : i # j /\ o[i] = o[j]
Owned(T, u, t) == t \in DOMAIN T /\ T[t].user_id = u
HasForeign(T, u, o) == \E i \in DOMAIN o : ~Owned(T, u, o[i])
HasCancelled(T, u, o) == \E i \in DOMAIN o : Owned(T, u, o[i]) /\ T[o[i]].status = CANCELLED
AcceptableOrder(T, u, o) ==
    Len(o) > 0 /\ ~HasDuplicate(o) /\ ~HasForeign(T, u, o) /\ ~HasCancelled(T, u, o)

(* the rows of a plans table for user u and the date of request r *)
PlansOf(P, u, r) ==
    {p \in P : p.user_id = u /\ Some(p.plan_date) = ParsePlanDate(r.plan_date)}

(* the outcome keys of a completion request that resolve to tasks of u *)
Resolved(u, r) == {t \in DOMAIN r.task_completions : Owned(tasks, u, t)}

----------------------------------------------------------------------------
(* C1: in every reachable state, a reorder whose new order has a duplicate *)
(* ID, an unknown or foreign ID or the ID of a cancelled task is rejected  *)
(* with an error and leaves the table of plans, and so the stored          *)
(* task_order, unchanged.                                                  *)
C1_ReorderRejectsInvalidOrder ==
    \A u \in Users, r \in ReorderRequests :
        ~AcceptableOrder(tasks, u, r.task_order)
        => (Reorder(u, r).result # "ok" /\ Reorder(u, r).plans = plans)

(* C2: in every reachable state no plan's task_order holds an ID twice.    *)
C2_TaskOrderDuplicateFree ==
    \A p \in plans : ~HasDuplicate(p.task_order)

(* C3: in every reachable state every ID in a plan's task_order resolves   *)
(* to a task of the plan's owner.                                          *)
C3_TaskOrderOwned ==
    \A p \in plans : ~HasForeign(tasks, p.user_id, p.task_order)

(* C4: in every reachable state, an upsert for an (owner, date) without a  *)
(* plan that omits task_order or leaves it empty succeeds and creates a    *)
(* plan with the empty order and the supplied notes and mood.              *)
C4_CreateWithoutOrder ==
    \A u \in Users, r \in PlanRequests :
        (/\ ValidPlanDate(r.plan_date)
         /\ r.task_order \in {None, Some(<<>>)}
         /\ PlansOf(plans, u, r) = {})
        => LET res == Upsert(u, r)
           IN  /\ res.result = "ok"
               /\ \E p \in PlansOf(res.plans, u, r) :
                     p.task_order = <<>> /\ p.notes = r.notes /\ p.mood = r.mood

(* C5: in every reachable state, an upsert on an existing plan that        *)
(* supplies no task_order succeeds and leaves the stored task_order, and   *)
(* whichever of notes and mood was not supplied, as they were.             *)
C5_PartialUpdateKeepsOrder ==
    \A u \in Users, r \in PlanRequests :
        (r.task_order = None /\ PlansOf(plans, u, r) # {})
        => LET res == Upsert(u, r)
           IN  /\ res.result = "ok"
               /\ \A p \in PlansOf(plans, u, r) : \E q \in PlansOf(res.plans, u, r) :
                     /\ q.id = p.id
                     /\ q.task_order = p.task_order
                     /\ (r.notes = None => q.notes = p.notes)
                     /\ (r.mood = None => q.mood = p.mood)

(* C6: in every reachable state, an upsert whose order is non-empty,       *)
(* duplicate-free and names only non-cancelled tasks of the caller passes  *)
(* the validation of the order; with a plan date that passes the date      *)
(* checks the call succeeds and the one plan of the caller and date then   *)
(* stores the proposed order, element for element.                         *)
C6_ValidOrderStored ==
    \A u \in Users, r \in PlanRequests :
        (r.task_order # None /\ AcceptableOrder(tasks, u, Get(r.task_order)))
        => LET res == Upsert(u, r)
           IN  /\ res.result \notin OrderErrors
               /\ ValidPlanDate(r.plan_date) =>
                    /\ res.result = "ok"
                    /\ PlansOf(res.plans, u, r) # {}
                    /\ \A p \in PlansOf(res.plans, u, r) :
                          p.id = res.plan_id /\ p.task_order = Get(r.task_order)

(* a plan stores an acceptable order of two tasks of its owner, which an   *)
(* upsert has written                                                      *)
C6_Witness ==
    \E u \in Users, r \in PlanRequests :
        /\ r.task_order # None
        /\ Len(Get(r.task_order)) = 2
        /\ AcceptableOrder(tasks, u, Get(r.task_order))
        /\ Upsert(u, r).result = "ok"
        /\ Upsert(u, r).plans = plans

C8_OnePlanPerOwnerDate ==
    /\ \A p, q \in plans :
          (p.user_id = q.user_id /\ p.plan_date = q.plan_date) => p = q
    /\ \A u \in Users, r \in PlanRequests :
          LET res == Upsert(u, r)
          IN  res.result = "ok"
              => /\ Cardinality(PlansOf(res.plans, u, r)) = 1
                 /\ \A p \in PlansOf(res.plans, u, r) : p.id = res.plan_id
                 /\ \A p \in PlansOf(plans, u, r) :
                       /\ p.id = res.plan_id
                       /\ Cardinality(res.plans) = Cardinality(plans)

(* a user has a plan for the date, and a further upsert of that user for  *)
(* the date with another order succeeds, answers with the ID of that plan  *)
(* and leaves one plan in the table                                        *)
C8_Witness ==
    \E u \in Users, r \in PlanRequests, p \in plans :
        /\ p \in PlansOf(plans, u, r)
        /\ r.task_order # None
        /\ Get(r.task_order) # p.task_order
        /\ Upsert(u, r).result = "ok"
        /\ Upsert(u, r).plan_id = p.id
        /\ Cardinality(Upsert(u, r).plans) = 1

(* C9: in every reachable state a completion request applies all of its   *)
(* writes or none: when it succeeds every resolved outcome has its         *)
(* TaskCompletion row, every resolved true outcome has its task completed  *)
(* and the supplied notes and mood are on the plan; when it fails no table *)
(* has changed.  No task changes without a row with actual_completed =     *)
(* true of the same call, and no such row is written without the task      *)
(* being completed.                                                        *)
C9_CompleteAllOrNothing ==
    \A u \in Users, r \in CompleteRequests, commit_ok \in BOOLEAN :
        LET res == Complete(u, r, commit_ok)
            new == res.completions \ completions
            tc == r.task_completions
            nothing == /\ res.completions = completions
                       /\ res.tasks = tasks
                       /\ res.plans = plans
            everything ==
              /\ \A t \in Resolved(u, r) :
                    /\ \E row \in new : row.task_id = t /\ row.actual_completed = tc[t]
                    /\ tc[t] => /\ res.tasks[t].status = COMPLETED
                                /\ res.tasks[t].completed_at # None
              /\ \A p \in PlansOf(res.plans, u, r) :
                    /\ r.notes # None => p.notes = r.notes
                    /\ r.mood # None => p.mood = r.mood
        IN  /\ \/ res.result = "ok" /\ everything
               \/ res.result # "ok" /\ nothing
            /\ \A t \in DOMAIN tasks :
                  res.tasks[t] # tasks[t]
                  => \E row \in new : row.task_id = t /\ row.actual_completed
            /\ \A row \in new :
                  row.actual_completed => res.tasks[row.task_id].status = COMPLETED

(* the caller has a plan and a pending task, and a completion request with *)
(* a true outcome for that task whose commit fails is answered with an     *)
(* error                                                                   *)
C9_Witness ==
    \E u \in Users, r \in CompleteRequests :
        /\ PlansOf(plans, u, r) # {}
        /\ \E t \in Resolved(u, r) : r.task_completions[t] /\ tasks[t].status = PENDING
        /\ Complete(u, r, FALSE).result = "INTERNAL_ERROR"
        /\ Complete(u, r, TRUE).result = "ok"

(* C10: in every reachable state a successful completion request writes,   *)
(* for each outcome key that resolves to a task of the caller, exactly one *)
(* row, whose planned_position is the 1-based index of the ID in the       *)
(* plan's task_order, or 0 when the ID is not in the order; it writes no   *)
(* other row, and a task that is not a key keeps all its fields.           *)
C10_CompletionRows ==
    \A u \in Users, r \in CompleteRequests :
        LET res == Complete(u, r, TRUE)
            new == res.completions \ completions
        IN  res.result = "ok" =>
            \A p \in PlansOf(plans, u, r) :
              /\ \A t \in Resolved(u, r) :
                    /\ Cardinality({row \in new : row.task_id = t}) = 1
                    /\ \A row \in new : row.task_id = t =>
                          /\ row.daily_plan_id = p.id
                          /\ IF \E i \in DOMAIN p.task_order : p.task_order[i] = t
                             THEN /\ row.planned_position \in DOMAIN p.task_order
                                  /\ p.task_order[row.planned_position] = t
                                  /\ \A j \in 1..(row.planned_position - 1) :
                                        p.task_order[j] # t
                             ELSE row.planned_position = 0
              /\ \A row \in new : row.task_id \in Resolved(u, r)
              /\ \A t \in DOMAIN tasks \ DOMAIN r.task_completions :
                    res.tasks[t] = tasks[t]

(* a plan's order is two pending tasks of its owner, and a completion      *)
(* request that names the second only succeeds and writes a single row,    *)
(* for that task, with position 2, and leaves the first task pending       *)
C10_Witness ==
    \E p \in plans, r \in CompleteRequests :
        /\ p \in PlansOf(plans, p.user_id, r)
        /\ p.task_order = <<1, 2>>
        /\ tasks[1].status = PENDING /\ tasks[2].status = PENDING
        /\ DOMAIN r.task_completions = {2}
        /\ LET res == Complete(p.user_id, r, TRUE)
           IN  /\ res.result = "ok"
               /\ Cardinality(res.completions \ completions) = 1
               /\ \E row \in res.completions \ completions :
                     row.task_id = 2 /\ row.planned_position = 2
               /\ res.tasks[1].status = PENDING


(* C11: in every reachable state, a completion request of a caller with a *)
(* plan succeeds whatever its outcome keys are; for a key that does not    *)
(* resolve to a task of the caller it writes no TaskCompletion row, and no *)
(* task of another user changes.                                           *)
C11_UnresolvedKeyIgnored ==
    \A u \in Users, r \in CompleteRequests :
        PlansOf(plans, u, r) # {}
        => LET res == Complete(u, r, TRUE)
               new == res.completions \ completions
           IN  /\ res.result = "ok"
               /\ \A k \in DOMAIN r.task_completions \ Resolved(u, r) :
                     \A row \in new : row.task_id # k
               /\ \A t \in DOMAIN tasks :
                     tasks[t].user_id # u => res.tasks[t] = tasks[t]

(* a completion request whose only outcome is true for a pending task of  *)
(* another user succeeds, writes no row and leaves that task pending       *)
C11_Witness ==
    \E u \in Users, r \in CompleteRequests :
        /\ \E k \in DOMAIN tasks :
              /\ DOMAIN r.task_completions = {k}
              /\ r.task_completions[k]
              /\ tasks[k].user_id # u
              /\ tasks[k].status = PENDING
              /\ Complete(u, r, TRUE).tasks[k].status = PENDING
        /\ Complete(u, r, TRUE).result = "ok"
        /\ Complete(u, r, TRUE).completions = completions

(* C12: in every reachable state, each row written by a successful        *)
(* completion request has actual_completed equal to the outcome supplied   *)
(* for its task, completed_at set iff the outcome is true, and             *)
(* skipped_reason equal to the request notes when the outcome is false and *)
(* null when it is true; a task with a true outcome is completed, a task   *)
(* with a false outcome keeps its status, and no other task changes        *)
(* status.                                                                 *)
C12_RowAndStatusFollowOutcome ==
    \A u \in Users, r \in CompleteRequests :
        LET res == Complete(u, r, TRUE)
            new == res.completions \ completions
            tc == r.task_completions
        IN  res.result = "ok" =>
            /\ \A row \in new :
                  /\ row.task_id \in DOMAIN tc
                  /\ row.actual_completed = tc[row.task_id]
                  /\ (row.completed_at # None) = tc[row.task_id]
                  /\ row.skipped_reason = IF tc[row.task_id] THEN None ELSE r.notes
            /\ \A t \in Resolved(u, r) :
                  /\ tc[t] => res.tasks[t].status = COMPLETED
                  /\ ~tc[t] => res.tasks[t].status = tasks[t].status
            /\ \A t \in DOMAIN tasks :
                  res.tasks[t].status # tasks[t].status
                  => (t \in Resolved(u, r) /\ tc[t])

(* a completion request with notes, a true outcome for one pending task of *)
(* the caller and a false outcome for another succeeds: the row of the     *)
(* skipped task carries the notes and that task is still pending           *)
C12_Witness ==
    \E u \in Users, r \in CompleteRequests :
        /\ r.notes # None
        /\ \E t1, t2 \in Resolved(u, r) :
              /\ r.task_completions[t1] /\ ~r.task_completions[t2]
              /\ tasks[t1].status = PENDING /\ tasks[t2].status = PENDING
              /\ LET res == Complete(u, r, TRUE)
                 IN  /\ res.result = "ok"
                     /\ res.tasks[t2].status = PENDING
                     /\ \E row \in res.completions \ completions :
                           row.task_id = t2 /\ row.skipped_reason = r.notes

(* C13: in every reachable state, a reflection query issued right after a  *)
(* successful completion request returns the total_tasks, completed_tasks  *)
(* and completion_rate that the completion request returned.               *)
C13_ReflectionAgrees ==
    \A u \in Users, r \in CompleteRequests :
        LET res == Complete(u, r, TRUE)
            q == get_plan_reflection(res.plans, res.completions, u, r.plan_date)
        IN  res.result = "ok" =>
            /\ q.result = "ok"
            /\ q.stats.total_tasks = res.stats.total_tasks
            /\ q.stats.completed_tasks = res.stats.completed_tasks
            /\ q.stats.completion_rate = res.stats.completion_rate

(* C14: in every reachable state, a successful completion request returns  *)
(* total_tasks = the length of the plan's task_order, completed_tasks =    *)
(* the number of outcome entries with value true, and completion_rate =    *)
(* completed_tasks / total_tasks, or 0 when the order is empty.            *)
C14_CompleteStats ==
    \A u \in Users, r \in CompleteRequests :
        LET res == Complete(u, r, TRUE)
            n == Cardinality({k \in DOMAIN r.task_completions : r.task_completions[k]})
        IN  res.result = "ok" =>
            \A p \in PlansOf(plans, u, r) :
                /\ res.stats.total_tasks = Len(p.task_order)
                /\ res.stats.completed_tasks = n
                /\ res.stats.completion_rate =
                      IF Len(p.task_order) > 0 THEN <<n, Len(p.task_order)>> ELSE <<0, 1>>

(* a completion request with a single outcome, true, on a plan of two      *)
(* tasks is answered with total_tasks 2, completed_tasks 1 and rate 1/2    *)
C14_Witness ==
    \E u \in Users, r \in CompleteRequests :
        /\ \E p \in PlansOf(plans, u, r) : Len(p.task_order) = 2
        /\ Cardinality(DOMAIN r.task_completions) = 1
        /\ Complete(u, r, TRUE).result = "ok"
        /\ Complete(u, r, TRUE).stats.total_tasks = 2
        /\ Complete(u, r, TRUE).stats.completed_tasks = 1
        /\ Complete(u, r, TRUE).stats.completion_rate = <<1, 2>>


(* C15: in every reachable state, after a further successful completion    *)
(* request there is at most one TaskCompletion row per (task, plan) pair,  *)
(* and every row written before is still in the table as it was.           *)
C15_OneRowPerTaskAndPlan ==
    \A u \in Users, r \in CompleteRequests :
        LET res == Complete(u, r, TRUE)
        IN  /\ completions \subseteq res.completions
            /\ \A a, b \in res.completions :
                  (a.task_id = b.task_id /\ a.daily_plan_id = b.daily_plan_id) => a = b

(* C16: in every reachable state a task has completed_at set if and only   *)
(* if its status is completed.                                             *)
C16_CompletedAtIffCompleted ==
    \A t \in DOMAIN tasks :
        (tasks[t].completed_at # None) = (tasks[t].status = COMPLETED)

(* C17: every step keeps a cancelled task in the table, with its owner and *)
(* with status cancelled.                                                  *)
C17_CancelledIsTerminal ==
    [][\A t \in DOMAIN tasks :
          tasks[t].status = CANCELLED
          => /\ t \in DOMAIN tasks'
             /\ tasks'[t].user_id = tasks[t].user_id
             /\ tasks'[t].status = CANCELLED]_vars

Listed ==
    {t \in DOMAIN tasks :
        /\ tasks[t].user_id = walk.user
        /\ IF walk.status # None THEN tasks[t].status = Get(walk.status)
           ELSE (walk.include_cancelled \/ tasks[t].status # CANCELLED)}

(* a comes before b in the order (created_at DESC, id DESC) *)
ListedBefore(a, b) ==
    created_at[a] > created_at[b] \/ (created_at[a] = created_at[b] /\ a > b)

(* C19: while no write was committed since its first page, the IDs a walk  *)
(* has fetched are listed tasks in the order (created_at DESC, id DESC),   *)
(* none twice, every listed task not yet fetched comes after all fetched   *)
(* ones, every page but the last is full, no request of the walk fails,    *)
(* and when the walk is done every listed task was fetched.                *)
C19_PagesAreTheListing ==
    /\ walk.phase # "failed"
    /\ (walk.phase \in {"paging", "done"} /\ walk.quiet)
       => LET f == walk.fetched
          IN  /\ Range(f) \subseteq Listed
              /\ \A i, j \in DOMAIN f : i < j => ListedBefore(f[i], f[j])
              /\ \A t \in Listed \ Range(f) : \A i \in DOMAIN f : ListedBefore(f[i], t)
              /\ walk.phase = "paging" => Len(f) = walk.pages * walk.limit
              /\ walk.phase = "done" => Range(f) = Listed

(* a walk of three pages over three tasks of one user, two of them with    *)
(* the same created_at, is done and no write was committed meanwhile       *)
C19_Witness ==
    /\ walk.phase = "done"
    /\ walk.quiet
    /\ walk.pages = 3
    /\ Len(walk.fetched) = 3
    /\ \E a, b \in Range(walk.fetched) : a # b /\ created_at[a] = created_at[b]

(* C20: in every reachable state of a walk, also with tasks committed      *)
(* between its pages, no ID was fetched twice and no task committed after  *)
(* the first page was fetched is among the fetched ones.                   *)
C20_NoRepeatNoLateRow ==
    walk.phase # "idle"
    => /\ \A i, j \in DOMAIN walk.fetched : i # j => walk.fetched[i] # walk.fetched[j]
       /\ Range(walk.fetched) \cap walk.late = {}


(* C23: in every reachable state, a list request whose cursor is an ID     *)
(* that is no task of the caller (unknown, or a task of another user) is   *)
(* answered with an error and without a page; with a valid limit the error *)
(* is TASK_INVALID_CURSOR.                                                 *)
C23_BadCursorIsAnError ==
    \A u \in Users, c \in TaskIds, f \in StatusFilters, ic \in BOOLEAN, n \in Limits :
        ~Owned(tasks, u, c)
        => LET res == list_tasks(tasks, created_at, u, f, ic, Some(c), n)
           IN  /\ res.result # "ok"
               /\ res.tasks = <<>>
               /\ res.next_cursor = None
               /\ n >= 1 => res.result = "TASK_INVALID_CURSOR"

(* a user with a task of their own passes the ID of a task of another user *)
(* as cursor and gets TASK_INVALID_CURSOR, where the same request without  *)
(* cursor returns a page                                                   *)
C23_Witness ==
    \E u \in Users, c \in DOMAIN tasks :
        /\ tasks[c].user_id # u
        /\ list_tasks(tasks, created_at, u, None, FALSE, Some(c), 1).result
              = "TASK_INVALID_CURSOR"
        /\ list_tasks(tasks, created_at, u, None, FALSE, None, 1).result = "ok"
        /\ Len(list_tasks(tasks, created_at, u, None, FALSE, None, 1).tasks) = 1

(* C26: in every reachable state, get, update, soft delete and complete of *)
(* a task ID that is no task of the caller are answered TASK_NOT_FOUND and *)
(* leave the tasks table unchanged, and the answer for a task of another   *)
(* user equals the answer for an ID that does not exist.                   *)
C26_ForeignTaskLooksAbsent ==
    \A u \in Users, t \in TaskIds :
        ~Owned(tasks, u, t)
        => /\ get_task(tasks, u, t).result = "TASK_NOT_FOUND"
           /\ delete_task(tasks, u, t) = [result |-> "TASK_NOT_FOUND", tasks |-> tasks]
           /\ complete_task(tasks, u, t) = [result |-> "TASK_NOT_FOUND", tasks |-> tasks]
           /\ \A st \in StatusUpdates :
                 update_task(tasks, u, t, st) = [result |-> "TASK_NOT_FOUND", tasks |-> tasks]
           /\ \A t2 \in TaskIds \ DOMAIN tasks :
                 /\ get_task(tasks, u, t) = get_task(tasks, u, t2)
                 /\ delete_task(tasks, u, t) = delete_task(tasks, u, t2)
                 /\ complete_task(tasks, u, t) = complete_task(tasks, u, t2)
                 /\ \A st \in StatusUpdates :
                       update_task(tasks, u, t, st) = update_task(tasks, u, t2, st)

(* a pending task of another user exists and an ID that does not exist is  *)
(* left: completing either is answered TASK_NOT_FOUND                      *)
C26_Witness ==
    \E u \in Users, t \in DOMAIN tasks, t2 \in TaskIds \ DOMAIN tasks :
        /\ tasks[t].user_id # u
        /\ tasks[t].status = PENDING
        /\ complete_task(tasks, u, t).result = "TASK_NOT_FOUND"
        /\ complete_task(tasks, u, t2).result = "TASK_NOT_FOUND"

(* C27: in every reachable state, a successful reorder leaves the plan     *)
(* with task_order equal to the new order and every other field as it was, *)
(* adds and removes no plan, and the same reorder issued again succeeds    *)
(* and changes nothing.                                                    *)
C27_ReorderReplacesAndIsIdempotent ==
    \A u \in Users, r \in ReorderRequests :
        LET res == Reorder(u, r)
            again == reorder_tasks(res.plans, tasks, u, r.plan_date, r.task_order)
        IN  res.result = "ok" =>
            /\ PlansOf(plans, u, r) # {}
            /\ \A p \in PlansOf(plans, u, r) :
                  res.plans = (plans \ {p}) \cup {[p EXCEPT !.task_order = r.task_order]}
            /\ again.result = "ok"
            /\ again.plans = res.plans

(* a plan with notes and an order of two tasks is reordered to the second  *)
(* task alone                                                              *)
C27_Witness ==
    \E u \in Users, r \in ReorderRequests, p \in plans :
        /\ p \in PlansOf(plans, u, r)
        /\ Len(p.task_order) = 2
        /\ r.task_order = <<p.task_order[2]>>
        /\ Reorder(u, r).result = "ok"
        /\ \E q \in Reorder(u, r).plans : q.id = p.id /\ q.task_order = r.task_order

(* C28: in every reachable state, every successful completion request and  *)
(* every successful reflection query is answered with                      *)
(* 0 <= completed_tasks <= total_tasks.                                    *)
C28_CompletedWithinTotal ==
    /\ \A u \in Users, r \in CompleteRequests :
          LET res == Complete(u, r, TRUE)
          IN  res.result = "ok" =>
              (0 <= res.stats.completed_tasks
               /\ res.stats.completed_tasks <= res.stats.total_tasks)
    /\ \A u \in Users, d \in PlanDateStrings :
          LET q == get_plan_reflection(plans, completions, u, d)
          IN  q.result = "ok" =>
              (0 <= q.stats.completed_tasks
               /\ q.stats.completed_tasks <= q.stats.total_tasks)

(* C29: in every reachable state, an upsert, reorder or completion request *)
(* that is answered with an error leaves the tables of plans, tasks and    *)
(* completion rows as they were.                                           *)
C29_ErrorsChangeNothing ==
    /\ \A u \in Users, r \in PlanRequests :
          LET res == Upsert(u, r)
          IN  res.result # "ok" => res.plans = plans
    /\ \A u \in Users, r \in ReorderRequests :
          LET res == Reorder(u, r)
          IN  res.result # "ok" => res.plans = plans
    /\ \A u \in Users, r \in CompleteRequests, commit_ok \in BOOLEAN :
          LET res == Complete(u, r, commit_ok)
          IN  res.result # "ok" =>
              (res.plans = plans /\ res.tasks = tasks /\ res.completions = completions)

(* an upsert with notes and an order with a duplicate ID on an existing    *)
(* plan without notes is rejected and the plan is as it was                *)
C29_Witness ==
    \E u \in Users, r \in PlanRequests :
        /\ r.notes # None
        /\ \E p \in PlansOf(plans, u, r) : p.notes = None
        /\ Upsert(u, r).result = "PLAN_DUPLICATE_TASK"
        /\ Upsert(u, r).plans = plans

(* C24: an oracle that fails (unreachable, timeout, no JSON) or whose     *)
(* output fails validation - a missing or wrongly typed task_order,       *)
(* reasoning or warnings, or a task_order naming a task that is not among *)
(* the requested ones - is answered by the fallback ranker; the output of *)
(* the oracle is returned only when its task_order names known tasks only *)
OracleFailsValidation(oracle, task_ids) ==
    \/ oracle.raises
    \/ oracle.task_order.kind # List
    \/ oracle.reasoning.kind # List
    \/ oracle.warnings.kind # List
    \/ ~(Range(oracle.task_order.value) \subseteq Range(task_ids))

C24_FallbackOnBadOracle ==
    (suggestion.phase = "answered"
     /\ suggestion.via \in {"get_suggestions", "suggest_order"})
    => /\ OracleFailsValidation(suggestion.oracle, TaskIdsOf(suggestion.tasks))
          => suggestion.response = rule_based_suggest(suggestion.tasks)
       /\ Range(suggestion.response.task_order)
             \subseteq Range(TaskIdsOf(suggestion.tasks))

(* C25: the fallback ranker returns the ids of its tasks, by priority     *)
(* descending and, among equal priorities, by due date ascending, a task  *)
(* without due date after every task with one; reasoning and warnings are *)
(* empty                                                                   *)
RankedBefore(a, b) ==
    \/ a.priority > b.priority
    \/ /\ a.priority = b.priority
       /\ \/ b.due_date = None
          \/ /\ a.due_date # None
             /\ Instant(Get(a.due_date)) <= Instant(Get(b.due_date))

C25_FallbackOrder ==
    (suggestion.phase = "answered" /\ suggestion.via = "rule_based_suggest")
    => LET ts == suggestion.tasks
           order == suggestion.response.task_order
       IN  /\ Len(order) = Len(ts)
           /\ Range(order) = Range(TaskIdsOf(ts))
           /\ \A i, j \in DOMAIN order : i < j => RankedBefore(ts[order[i]], ts[order[j]])
           /\ suggestion.response.reasoning = <<>>
           /\ suggestion.response.warnings = <<>>

(* the tables after call c of reorder or complete, run alone on the       *)
(* committed tables: the call sees what was committed before it            *)
SerialOutcome(c) ==
    LET t == txns[c]
    IN  IF t.op = "reorder"
        THEN <<reorder_tasks(plans, tasks, t.user, t.plan_date, Get(t.task_order)).plans,
               tasks, completions>>
        ELSE LET res == complete_plan(plans, tasks, completions, t.user, t.plan_date,
                                      [task_completions |-> t.task_completions,
                                       notes |-> t.notes, mood |-> t.mood],
                                      CallNumber(c), TRUE)
             IN  <<res.plans, res.tasks, res.completions>>

(* C21: when reorder and complete calls on one plan run at the same time, *)
(* every commit leaves the plans, the tasks and the TaskCompletion rows   *)
(* (planned_position included) as the committing call leaves them when it *)
(* runs alone after the calls committed before it: the final state is     *)
(* that of the serial execution in the order of the commits                *)
C21_SerialInCommitOrder ==
    [][\A c \in CallIds :
          (/\ txns[c].phase = "read" /\ txns'[c].phase = "done"
           /\ \A d \in CallIds : txns[d].op \in {"none", "reorder", "complete"})
          => <<plans', tasks', completions'>> = SerialOutcome(c)]_vars

(* C22: of two plan creations for one owner and date that both found no   *)
(* plan, one row is stored, and the call whose INSERT hits the duplicate  *)
(* key is answered with a conflict, not with an internal error             *)
C22_LoserGetsConflict ==
    /\ \A p, q \in plans : (p.user_id = q.user_id /\ p.plan_date = q.plan_date) => p = q
    /\ \A c \in CallIds :
          (txns[c].op = "upsert" /\ txns[c].raised = "IntegrityError")
          => txns[c].result = "CONFLICT"

====
